---- MODULE Spec2Model ----
(***************************************************************************)
(* PageRankApp (src/week5/app.js): the application state, its UI handlers  *)
(* and the two asynchronous operations it awaits (the fetch of the data    *)
(* set and the PageRank engine).                                           *)
(*                                                                         *)
(* Encoding of JavaScript values                                           *)
(*   - a number is an integer count of halves: the model value h stands    *)
(*     for the JavaScript number h/2, so that the non-integer 1.5 (which   *)
(*     Number accepts and parseInt truncates) is the value 3;              *)
(*   - NaN and undefined are the value NaN (-1); no literal of the model   *)
(*     is negative;                                                        *)
(*   - null is the empty sequence <<>> and a non-null object v is <<v>>;   *)
(*   - a text is the sequence of its lines (what split('\n') returns) and  *)
(*     a line is the sequence of its fields (what split(',') returns).     *)
(***************************************************************************)
EXTENDS Integers, Sequences, FiniteSets, Bags, TLC

VARIABLES graph, pageRankScores, selectedNode, isComputing, sortBy, sortOrder,
          pendingLoads, inflight, rows, buttons, lastOp, alerts,
          csvText, parsed, recInput, recOutput

vars == <<graph, pageRankScores, selectedNode, isComputing, sortBy, sortOrder,
          pendingLoads, inflight, rows, buttons, lastOp, alerts,
          csvText, parsed, recInput, recOutput>>

appVars == <<graph, pageRankScores, selectedNode, isComputing, sortBy, sortOrder,
             pendingLoads, inflight, rows, buttons, lastOp, alerts>>

parseVars == <<csvText, parsed>>

recVars == <<recInput, recOutput>>

-----------------------------------------------------------------------------
(* Bounds of the model *)

MaxDefaultLines == 2
MaxDefaultNodes == 3
MaxPendingLoads == 1
MaxEdges == 4
MaxParseLines == 2
MaxInflight == 2

-----------------------------------------------------------------------------
(* JavaScript values *)

Half == 2
NaN == -1
Null == <<>>

Num(n) == Half * n

Min(a, b) == IF a < b THEN a ELSE b

RECURSIVE SortAsc(_)
SortAsc(S) ==
    IF S = {} THEN <<>>
    ELSE LET m == CHOOSE x \in S : \A y \in S : x <= y
         IN  <<m>> \o SortAsc(S \ {m})

Range(s) == {s[i] : i \in 1..Len(s)}

Includes(list, x) == \E i \in 1..Len(list) : list[i] = x

(* Number(field): whitespace-only text is 0, a decimal literal is its value,
   anything else is NaN. *)
MaxLiteral == 34

IsBlank(field) == field \in {"", " "}

Number(field) ==
    IF IsBlank(field) THEN 0
    ELSE IF \E n \in 0..MaxLiteral : ToString(n) = field
         THEN Num(CHOOSE n \in 0..MaxLiteral : ToString(n) = field)
    ELSE IF \E n \in 0..MaxLiteral : ToString(n) \o ".5" = field
         THEN Num(CHOOSE n \in 0..MaxLiteral : ToString(n) \o ".5" = field) + 1
    ELSE NaN

isNaN(x) == x = NaN

(* parseInt(x) of a non-negative number: the integer part *)
parseInt(x) == (x \div Half) * Half

(* String.prototype.trim over a text: white space is ' ' and '\n' *)
RECURSIVE TrimStart(_)
TrimStart(lines) ==
    IF IsBlank(lines[1][1])
    THEN IF Len(lines[1]) = 1
         THEN IF Len(lines) = 1 THEN << <<"">> >> ELSE TrimStart(Tail(lines))
         ELSE << <<"">> \o Tail(lines[1]) >> \o Tail(lines)
    ELSE lines

RECURSIVE TrimEnd(_)
TrimEnd(lines) ==
    LET n == Len(lines)
        last == lines[n]
        k == Len(last)
    IN  IF IsBlank(last[k])
        THEN IF k = 1
             THEN IF n = 1 THEN << <<"">> >> ELSE TrimEnd(SubSeq(lines, 1, n - 1))
             ELSE SubSeq(lines, 1, n - 1) \o << SubSeq(last, 1, k - 1) \o <<"">> >>
        ELSE lines

trim(text) == TrimEnd(TrimStart(text))

-----------------------------------------------------------------------------
(* parseCSVToGraph *)

(* const [source, target] = line.split(',').map(Number) *)
LineSource(line) == Number(line[1])
LineTarget(line) == IF Len(line) >= 2 THEN Number(line[2]) ELSE NaN

LineAccepted(line) == ~isNaN(LineSource(line)) /\ ~isNaN(LineTarget(line))

RECURSIVE ParseEdges(_)
ParseEdges(lines) ==
    IF lines = <<>> THEN <<>>
    ELSE (IF LineAccepted(lines[1])
          THEN <<[source |-> LineSource(lines[1]), target |-> LineTarget(lines[1])]>>
          ELSE <<>>) \o ParseEdges(Tail(lines))

EdgeNodes(edges) ==
    {edges[i].source : i \in 1..Len(edges)} \cup {edges[i].target : i \in 1..Len(edges)}

(* one step of edges.forEach in parseCSVToGraph: both pushes are guarded by
   includes *)
PushUnique(adj, a, b) ==
    IF a \in DOMAIN adj /\ ~Includes(adj[a], b)
    THEN [adj EXCEPT ![a] = Append(@, b)]
    ELSE adj

(* the edge pushed on its source's list only *)
AddEdgeOneWay(adj, edge) == PushUnique(adj, edge.source, edge.target)

AddEdgeGuarded(adj, edge) ==
    PushUnique(PushUnique(adj, edge.source, edge.target), edge.target, edge.source)

RECURSIVE BuildAdjacency(_, _)
BuildAdjacency(adj, edges) ==
    IF edges = <<>> THEN adj
    ELSE BuildAdjacency(AddEdgeGuarded(adj, edges[1]), Tail(edges))

parseCSVToGraph(text) ==
    LET edges == ParseEdges(trim(text))
        nodes == EdgeNodes(edges)
    IN  [nodes |-> SortAsc(nodes),
         edges |-> edges,
         adjacencyList |-> BuildAdjacency([n \in nodes |-> <<>>], edges)]

-----------------------------------------------------------------------------
(* The built-in data *)

DefaultDataPairs ==
    << <<1,2>>, <<1,3>>, <<2,3>>, <<2,4>>, <<2,5>>, <<2,6>>, <<2,7>>, <<3,4>>,
       <<3,8>>, <<3,9>>, <<3,10>>, <<4,6>>, <<5,6>>, <<5,7>>, <<6,7>>, <<8,9>>,
       <<8,10>>, <<8,11>>, <<8,12>>, <<9,10>>, <<9,12>>, <<9,13>>, <<10,11>>,
       <<10,13>>, <<11,12>>, <<11,13>>, <<12,13>>, <<12,14>>, <<12,15>>,
       <<13,14>>, <<13,15>>, <<14,15>>, <<14,16>>, <<15,16>>, <<16,17>>,
       <<16,18>>, <<17,18>>, <<18,19>>, <<19,20>>, <<19,21>>, <<20,21>>,
       <<21,22>>, <<22,23>>, <<22,24>>, <<23,24>>, <<24,25>>, <<25,26>>,
       <<25,27>>, <<26,27>>, <<27,28>>, <<27,29>>, <<27,30>>, <<28,29>>,
       <<28,30>>, <<29,30>>, <<30,31>>, <<31,32>>, <<31,33>>, <<32,33>>,
       <<33,34>> >>

(* the text getDefaultGraphData returns, cut to its first MaxDefaultLines lines *)
getDefaultGraphData ==
    [i \in 1..Min(MaxDefaultLines, Len(DefaultDataPairs)) |->
        <<ToString(DefaultDataPairs[i][1]), ToString(DefaultDataPairs[i][2])>>]

DefaultGraphEdges ==
    << <<1,2>>, <<1,3>>, <<2,3>>, <<2,4>>, <<3,4>>, <<4,5>>,
       <<5,6>>, <<6,7>>, <<7,8>>, <<8,9>>, <<9,10>>, <<1,10>> >>

DefaultGraphNodeCount == 10

RECURSIVE PushAll(_, _)
PushAll(adj, edges) ==
    IF edges = <<>> THEN adj
    ELSE LET e == edges[1]
             a1 == [adj EXCEPT ![e.source] = Append(@, e.target)]
             a2 == [a1 EXCEPT ![e.target] = Append(@, e.source)]
         IN  PushAll(a2, Tail(edges))

(* createDefaultGraph, cut to its first MaxDefaultNodes nodes and the edges
   among them *)
createDefaultGraph ==
    LET k == Min(MaxDefaultNodes, DefaultGraphNodeCount)
        kept == SelectSeq(DefaultGraphEdges, LAMBDA p : p[1] <= k /\ p[2] <= k)
        edges == [i \in 1..Len(kept) |->
                    [source |-> Num(kept[i][1]), target |-> Num(kept[i][2])]]
        nodes == [i \in 1..k |-> Num(i)]
    IN  [nodes |-> nodes,
         edges |-> edges,
         adjacencyList |-> PushAll([n \in Range(nodes) |-> <<>>], edges)]

-----------------------------------------------------------------------------
(* The PageRank engine, computePageRank(adjacency, maxIterations, damping).
   A score is an integer count of ScoreUnit-ths (fixed point): the score map
   <<1/2, 1/2>> is ScoreUnit \div 2 at both nodes. *)

ScoreUnit == 1000000000
MaxIterations == 50
DampingPercent == 85
(* the convergence tolerance 1e-6, in score units *)
ConvergenceTolerance == ScoreUnit \div 1000000

Keys(adj) == DOMAIN adj

Degree(adj, u) == Len(adj[u])

(* fails with InvalidInput when maxIterations <= 0, dampingFactor not in (0,1),
   or adjacency contains a neighbor identifier absent from its own key set *)
ValidEngineInput(adj, maxIterations, dampingPercent) ==
    /\ maxIterations > 0
    /\ dampingPercent > 0 /\ dampingPercent < 100
    /\ \A u \in Keys(adj) : \A i \in 1..Len(adj[u]) : adj[u][i] \in Keys(adj)

Abs(x) == IF x < 0 THEN -x ELSE x

(* the function f with every value computed (a score buffer, not a closure) *)
Buffer(f) == f @@ <<>>

(* the sum of f over S, f >= 0: the cardinality of the bag with f[x] + 1
   copies of x, less one copy of each *)
SumOver(f, S) == BagCardinality([x \in S |-> f[x] + 1]) - Cardinality(S)

(* floor(percent * x / 100) without leaving 32 bits *)
PercentOf(percent, x) == (x \div 100) * percent + ((x % 100) * percent) \div 100

(* the nodes u with v in neighbors(u) *)
InNeighbours(adj) == Buffer([v \in Keys(adj) |-> {u \in Keys(adj) : Includes(adj[u], v)}])

(* step 3a: newScore[v] = (1 - d)/N + d * SUM_{u : v in neighbors(u)} oldScore[u] / degree(u) *)
PageRankStep(adj, inn, old, dampingPercent) ==
    LET N == Cardinality(Keys(adj))
        shares == Buffer([u \in Keys(adj) |->
                    IF Degree(adj, u) = 0 THEN 0 ELSE old[u] \div Degree(adj, u)])
    IN  Buffer([v \in Keys(adj) |->
            PercentOf(100 - dampingPercent, ScoreUnit) \div N
            + PercentOf(dampingPercent, SumOver(shares, inn[v]))])

RECURSIVE PageRankLoop(_, _, _, _, _)
PageRankLoop(adj, inn, old, remaining, dampingPercent) ==
    IF remaining = 0 THEN old
    ELSE LET new == PageRankStep(adj, inn, old, dampingPercent)
             diff == SumOver([v \in Keys(adj) |-> Abs(new[v] - old[v])], Keys(adj))
         IN  IF diff < ConvergenceTolerance THEN new
             ELSE PageRankLoop(adj, inn, new, remaining - 1, dampingPercent)

PageRankEngine(adj, maxIterations, dampingPercent) ==
    LET N == Cardinality(Keys(adj))
    IN  IF N = 0 THEN <<>>
        ELSE PageRankLoop(adj, InNeighbours(adj), Buffer([v \in Keys(adj) |-> ScoreUnit \div N]),
                          maxIterations, dampingPercent)

-----------------------------------------------------------------------------
(* getRecommendations *)

TopK == 3

(* pageRankScores[id]: undefined when the score map has no such key *)
ScoreOf(scores, id) == IF id \in DOMAIN scores THEN scores[id] ELSE NaN

Friends(g, nodeId) ==
    IF nodeId \in DOMAIN g.adjacencyList THEN g.adjacencyList[nodeId] ELSE <<>>

(* currentFriends: the neighbours and parseInt(nodeId) *)
CurrentFriends(g, nodeId) == Range(Friends(g, nodeId)) \cup {parseInt(nodeId)}

Candidates(g, scores, nodeId) ==
    LET kept == SelectSeq(g.nodes, LAMBDA id : id \notin CurrentFriends(g, nodeId))
    IN  [i \in 1..Len(kept) |-> [node |-> kept[i], score |-> ScoreOf(scores, kept[i])]]

(* a sort comparator over records with a key: (a, b) => a.key - b.key for
   'asc' and b.key - a.key for 'desc'; a NaN result counts as 0 *)
Compare(a, b, order) ==
    IF isNaN(a.key) \/ isNaN(b.key) THEN 0
    ELSE IF order = "asc" THEN a.key - b.key ELSE b.key - a.key

(* Array.prototype.sort is stable: x goes before the first element that the
   comparator orders after it *)
RECURSIVE InsertSorted(_, _, _)
InsertSorted(sorted, x, order) ==
    IF sorted = <<>> THEN <<x>>
    ELSE IF Compare(sorted[1], x, order) > 0 THEN <<x>> \o sorted
    ELSE <<sorted[1]>> \o InsertSorted(Tail(sorted), x, order)

RECURSIVE Sort(_, _)
Sort(list, order) ==
    IF list = <<>> THEN <<>>
    ELSE InsertSorted(Sort(SubSeq(list, 1, Len(list) - 1), order), list[Len(list)], order)

Slice(list, n) == SubSeq(list, 1, Min(n, Len(list)))

(* recommendations.sort((a, b) => b.score - a.score).slice(0, 3) *)
getRecommendations(g, scores, nodeId) ==
    IF scores = Null THEN <<>>
    ELSE LET cands == Candidates(g, scores[1], nodeId)
             keyed == [i \in 1..Len(cands) |-> [item |-> cands[i], key |-> cands[i].score]]
             top == Slice(Sort(keyed, "desc"), TopK)
         IN  [i \in 1..Len(top) |-> top[i].item]

-----------------------------------------------------------------------------
(* updateTable and showNodeDetails: what they leave in the page, and whether
   they throw *)

SortKeys == {"id", "pageRank", "friendCount"}

HasScore(scores, id) == scores = Null \/ id \in DOMAIN scores[1]

(* nodesWithData.sort(...) for the keys that are always numbers *)
TableOrder(g, by, order) ==
    LET keyed == [i \in 1..Len(g.nodes) |->
                    [item |-> g.nodes[i],
                     key |-> IF by = "friendCount" THEN Len(Friends(g, g.nodes[i]))
                             ELSE IF by = "id" THEN g.nodes[i]
                             ELSE 0]]
        sorted == Sort(keyed, order)
    IN  [i \in 1..Len(sorted) |-> sorted[i].item]

RECURSIVE PrefixWithScore(_, _)
PrefixWithScore(scores, order) ==
    IF order = <<>> \/ ~HasScore(scores, order[1]) THEN {}
    ELSE {order[1]} \cup PrefixWithScore(scores, Tail(order))

(* The rows updateTable leaves in the table. Rows are appended in sorted order
   and pageRankScores[id].toFixed throws at the first node without a score.
   Sorted by pageRank with a score missing the comparator returns NaN and the
   order is the implementation's: any set of scored nodes may precede the first
   node without one. *)
updateTable(g, scores, by, order) ==
    IF \A i \in 1..Len(g.nodes) : HasScore(scores, g.nodes[i])
    THEN {[threw |-> FALSE, rows |-> Range(g.nodes)]}
    ELSE IF by = "pageRank"
    THEN {[threw |-> TRUE, rows |-> R] :
             R \in SUBSET {id \in Range(g.nodes) : HasScore(scores, id)}}
    ELSE {[threw |-> TRUE, rows |-> PrefixWithScore(scores, TableOrder(g, by, order))]}

(* The Connect buttons showNodeDetails leaves in the details panel: one per
   recommendation. rec.score.toFixed and pageRankScores[nodeId].toFixed throw on
   a missing score, before the panel is written. With a candidate's score
   missing the comparator returns NaN and which candidates come first is the
   implementation's. *)
showNodeDetails(g, scores, nodeId) ==
    IF scores = Null THEN {[threw |-> FALSE, buttons |-> {}]}
    ELSE LET cands == Candidates(g, scores[1], nodeId)
             ids == {cands[i].node : i \in 1..Len(cands)}
             recs == getRecommendations(g, scores, nodeId)
         IN  IF \A id \in ids : HasScore(scores, id)
             THEN {[threw |-> ~HasScore(scores, nodeId),
                    buttons |-> {<<nodeId, recs[i].node>> : i \in 1..Len(recs)}]}
             ELSE {[threw |-> ~HasScore(scores, nodeId) \/ \E id \in T : ~HasScore(scores, id),
                    buttons |-> {<<nodeId, id>> : id \in T}] :
                      T \in {U \in SUBSET ids : Cardinality(U) = Min(TopK, Cardinality(ids))}}

-----------------------------------------------------------------------------
(* connectNodes, up to its call of computePageRank. The edge is pushed first;
   adjacencyList[id].includes throws a TypeError when id is no key, and what
   was written before the throw stays written. *)
connectNodesUnguarded(g, sourceId, targetId) ==
    LET edges == Append(g.edges, [source |-> sourceId, target |-> targetId])
        adj == g.adjacencyList
        adj1 == IF sourceId \in DOMAIN adj
                THEN [adj EXCEPT ![sourceId] = Append(@, targetId)]
                ELSE adj
        adj2 == IF targetId \in DOMAIN adj1
                THEN [adj1 EXCEPT ![targetId] = Append(@, sourceId)]
                ELSE adj1
    IN  IF sourceId \notin DOMAIN adj
        THEN [threw |-> TRUE, graph |-> [g EXCEPT !.edges = edges]]
        ELSE IF targetId \notin DOMAIN adj
        THEN [threw |-> TRUE, graph |-> [g EXCEPT !.edges = edges, !.adjacencyList = adj1]]
        ELSE [threw |-> FALSE, graph |-> [g EXCEPT !.edges = edges, !.adjacencyList = adj2]]

connectNodes(g, sourceId, targetId) ==
    LET edges == Append(g.edges, [source |-> sourceId, target |-> targetId])
        adj == g.adjacencyList
        adj1 == IF sourceId \in DOMAIN adj /\ ~Includes(adj[sourceId], targetId)
                THEN [adj EXCEPT ![sourceId] = Append(@, targetId)]
                ELSE adj
        adj2 == IF targetId \in DOMAIN adj1 /\ ~Includes(adj1[targetId], sourceId)
                THEN [adj1 EXCEPT ![targetId] = Append(@, sourceId)]
                ELSE adj1
    IN  IF sourceId \notin DOMAIN adj
        THEN [threw |-> TRUE, graph |-> [g EXCEPT !.edges = edges]]
        ELSE IF targetId \notin DOMAIN adj
        THEN [threw |-> TRUE, graph |-> [g EXCEPT !.edges = edges, !.adjacencyList = adj1]]
        ELSE [threw |-> FALSE, graph |-> [g EXCEPT !.edges = edges, !.adjacencyList = adj2]]

(* the body of a response that is not the data set (a not-found page): no
   line of it has a number in its first two fields *)
NotFoundPage == << <<"x">> >>

(* The responses the fetch of data/karate.csv resolves with; fetch resolves
   whatever the status of the response *)
FetchTexts ==
    { << <<"0", "1">>, <<"1", "2">> >>,
      << <<"1", "2">>, <<"1", "1">>, <<"2", "1">> >>,
      NotFoundPage }

(* The engine is a pure function of its input: its results over the adjacency
   lists the loads and valid connectNodes calls produce are computed once. *)
LoadedGraphs ==
    {parseCSVToGraph(text) : text \in FetchTexts \cup {getDefaultGraphData}}
    \cup {createDefaultGraph}

ConnectedGraphs(g) ==
    IF Len(g.edges) < MaxEdges
    THEN {connectNodes(g, a, b).graph : a \in Keys(g.adjacencyList), b \in Keys(g.adjacencyList)}
    ELSE {}

RECURSIVE GraphsWithin(_, _)
GraphsWithin(S, n) ==
    IF n = 0 THEN S
    ELSE GraphsWithin(S \cup UNION {ConnectedGraphs(g) : g \in S}, n - 1)

EngineResults ==
    Buffer([adj \in {g.adjacencyList : g \in GraphsWithin(LoadedGraphs, MaxEdges)} |->
               PageRankEngine(adj, MaxIterations, DampingPercent)])

(* the score map the engine returns for adj, 50 and 0.85 *)
EngineResult(adj) ==
    IF adj \in DOMAIN EngineResults THEN EngineResults[adj]
    ELSE PageRankEngine(adj, MaxIterations, DampingPercent)

(* computePageRank, up to its await. An engine invocation in flight holds the
   adjacency list object it was given: adj0 is the object's content at the
   call, adj its content now, live whether it is still this.graph.adjacencyList. *)
Invocation(adj) == [adj0 |-> adj, adj |-> adj, live |-> TRUE]

computePageRankReentrant(g, computing, flying) ==
    IF g = Null
    THEN [isComputing |-> FALSE, inflight |-> flying, alerts |-> <<"error">>, tag |-> "noGraph"]
    ELSE IF ~ValidEngineInput(g[1].adjacencyList, MaxIterations, DampingPercent)
    THEN [isComputing |-> FALSE, inflight |-> flying, alerts |-> <<"error">>, tag |-> "invalidInput"]
    ELSE [isComputing |-> TRUE, inflight |-> Append(flying, Invocation(g[1].adjacencyList)),
          alerts |-> <<>>, tag |-> "started"]

(* computePageRank without its finally block on the synchronous failures *)
computePageRankNoFinally(g, computing, flying) ==
    IF computing
    THEN [isComputing |-> TRUE, inflight |-> flying, alerts |-> <<>>, tag |-> "rejected"]
    ELSE IF g = Null
    THEN [isComputing |-> TRUE, inflight |-> flying, alerts |-> <<"error">>, tag |-> "noGraph"]
    ELSE IF ~ValidEngineInput(g[1].adjacencyList, MaxIterations, DampingPercent)
    THEN [isComputing |-> TRUE, inflight |-> flying, alerts |-> <<"error">>, tag |-> "invalidInput"]
    ELSE [isComputing |-> TRUE, inflight |-> Append(flying, Invocation(g[1].adjacencyList)),
          alerts |-> <<>>, tag |-> "started"]

computePageRank(g, computing, flying) ==
    IF computing
    THEN [isComputing |-> TRUE, inflight |-> flying, alerts |-> <<>>, tag |-> "rejected"]
    ELSE IF g = Null
    THEN [isComputing |-> FALSE, inflight |-> flying, alerts |-> <<"error">>, tag |-> "noGraph"]
    ELSE IF ~ValidEngineInput(g[1].adjacencyList, MaxIterations, DampingPercent)
    THEN [isComputing |-> FALSE, inflight |-> flying, alerts |-> <<"error">>, tag |-> "invalidInput"]
    ELSE [isComputing |-> TRUE, inflight |-> Append(flying, Invocation(g[1].adjacencyList)),
          alerts |-> <<>>, tag |-> "started"]

(* What a settling engine invocation yields. The result over an adjacency list
   that was changed while the engine ran is not defined by the engine's
   contract: it is the result over the list as given or as it is now. *)
EngineOutcomes(inv) ==
    {[ok |-> TRUE, scores |-> EngineResult(inv.adj0)]}
    \cup (IF inv.adj = inv.adj0 THEN {}
          ELSE IF ValidEngineInput(inv.adj, MaxIterations, DampingPercent)
          THEN {[ok |-> TRUE, scores |-> EngineResult(inv.adj)]}
          ELSE {[ok |-> FALSE, scores |-> <<>>]})

(* this.pageRankScores = await computePageRank(...): the assignment is made
   only when the awaited invocation fulfils *)
InstallScoresOrNull(scores, out) == IF out.ok THEN <<out.scores>> ELSE Null

InstallScores(scores, out) == IF out.ok THEN <<out.scores>> ELSE scores

RemoveAt(list, i) == SubSeq(list, 1, i - 1) \o SubSeq(list, i + 1, Len(list))

(* the invocations in flight after connectNodes changed this.graph.adjacencyList *)
Mutated(flying, adj) ==
    [i \in 1..Len(flying) |-> IF flying[i].live THEN [flying[i] EXCEPT !.adj = adj] ELSE flying[i]]

(* the invocations in flight after this.graph was replaced *)
Detached(flying) == [i \in 1..Len(flying) |-> [flying[i] EXCEPT !.live = FALSE]]

-----------------------------------------------------------------------------
HeaderColumns == {"id", "pagerank", "friends", "node"}

-----------------------------------------------------------------------------
(* The application *)

InitApp ==
    /\ graph = Null
    /\ pageRankScores = Null
    /\ selectedNode = Null
    /\ isComputing = FALSE
    /\ sortBy = "id"
    /\ sortOrder = "asc"
    /\ pendingLoads = 1
    /\ inflight = <<>>
    /\ rows = {}
    /\ buttons = {}
    /\ lastOp = "constructor"
    /\ alerts = <<>>

IdleParse == csvText = << <<"">> >> /\ parsed = Null
IdleRec == recInput = Null /\ recOutput = Null

Init == InitApp /\ IdleParse /\ IdleRec

(* a click on computeBtn; the button is disabled while isComputing *)
ClickCompute ==
    /\ ~isComputing
    /\ LET r == computePageRank(graph, isComputing, inflight)
       IN  /\ isComputing' = r.isComputing
           /\ inflight' = r.inflight
           /\ alerts' = r.alerts
           /\ lastOp' = "compute:" \o r.tag
    /\ UNCHANGED <<graph, pageRankScores, selectedNode, sortBy, sortOrder,
                   pendingLoads, rows, buttons, parseVars, recVars>>

(* the awaited engine invocation settles and computePageRank runs to its end *)
EngineSettle ==
    \E i \in 1..Len(inflight) : \E out \in EngineOutcomes(inflight[i]) :
        /\ inflight' = RemoveAt(inflight, i)
        /\ isComputing' = FALSE
        /\ pageRankScores' = InstallScores(pageRankScores, out)
        /\ IF ~out.ok
           THEN /\ alerts' = <<"error">>
                /\ lastOp' = "settle:rejected"
                /\ UNCHANGED <<rows, buttons>>
           ELSE /\ \E t \in updateTable(graph[1], pageRankScores', sortBy, sortOrder) :
                     /\ rows' = t.rows
                     /\ IF t.threw
                        THEN /\ alerts' = <<"error">>
                             /\ lastOp' = "settle:threw"
                             /\ UNCHANGED buttons
                        ELSE IF selectedNode # Null /\ selectedNode[1] # 0
                        THEN \E d \in showNodeDetails(graph[1], pageRankScores', selectedNode[1]) :
                               IF d.threw
                               THEN /\ alerts' = <<"error">>
                                    /\ lastOp' = "settle:threw"
                                    /\ UNCHANGED buttons
                               ELSE /\ alerts' = <<>>
                                    /\ lastOp' = "settle:ok"
                                    /\ buttons' = d.buttons
                        ELSE /\ alerts' = <<>>
                             /\ lastOp' = "settle:ok"
                             /\ UNCHANGED buttons
        /\ UNCHANGED <<graph, selectedNode, sortBy, sortOrder, pendingLoads,
                       parseVars, recVars>>

(* a click on resetBtn: resetGraph, with loadDefaultData up to its await *)
ClickReset ==
    /\ pendingLoads < MaxPendingLoads
    /\ pageRankScores' = Null
    /\ selectedNode' = Null
    /\ sortBy' = "id"
    /\ sortOrder' = "asc"
    /\ pendingLoads' = pendingLoads + 1
    /\ buttons' = {}
    /\ alerts' = <<>>
    /\ lastOp' = "reset"
    /\ UNCHANGED <<graph, isComputing, inflight, rows, parseVars, recVars>>

(* loadDefaultData from its await on: text is what the fetch resolved with, or
   the built-in data when it rejected *)
LoadWith(text) ==
    /\ pendingLoads > 0
    /\ pendingLoads' = pendingLoads - 1
    /\ inflight' = Detached(inflight)
    /\ alerts' = <<>>
    /\ LET g == parseCSVToGraph(text)
           d == createDefaultGraph
       IN  \E t \in updateTable(g, pageRankScores, sortBy, sortOrder) :
             IF ~t.threw
             THEN /\ graph' = <<g>>
                  /\ rows' = t.rows
                  /\ lastOp' = "load:parsed"
             ELSE \E u \in updateTable(d, pageRankScores, sortBy, sortOrder) :
                  /\ graph' = <<d>>
                  /\ rows' = u.rows
                  /\ lastOp' = IF u.threw THEN "load:threw" ELSE "load:fallback"
    /\ UNCHANGED <<pageRankScores, selectedNode, isComputing, sortBy, sortOrder,
                   buttons, parseVars, recVars>>

FetchResolves == \E text \in FetchTexts : LoadWith(text)

FetchRejects == LoadWith(getDefaultGraphData)

(* the sort key sortTable derives from the clicked header *)
SortKeyOf(column) ==
    IF column = "pagerank" THEN "pageRank"
    ELSE IF column = "friends" THEN "friendCount"
    ELSE "id"

(* sortTable without the toggle: the order is 'asc' after every click *)
sortTableNoToggle(by, order, column) ==
    [sortBy |-> SortKeyOf(column), sortOrder |-> "asc"]

(* sortTable(column), up to its call of updateTable: what it writes to sortBy
   and sortOrder *)
sortTable(by, order, column) ==
    IF by = SortKeyOf(column)
    THEN [sortBy |-> by, sortOrder |-> IF order = "asc" THEN "desc" ELSE "asc"]
    ELSE [sortBy |-> SortKeyOf(column), sortOrder |-> "asc"]

(* a click on a header of nodeTable: sortTable(column). updateTable throws on
   this.graph.nodes, after clearing the table, while no graph is loaded *)
ClickHeader ==
    \E column \in HeaderColumns :
        /\ sortBy' = sortTable(sortBy, sortOrder, column).sortBy
        /\ sortOrder' = sortTable(sortBy, sortOrder, column).sortOrder
        /\ IF graph = Null
           THEN /\ rows' = {}
                /\ lastOp' = "sort:threw"
           ELSE \E t \in updateTable(graph[1], pageRankScores, sortBy', sortOrder') :
                /\ rows' = t.rows
                /\ lastOp' = IF t.threw THEN "sort:threw" ELSE "sort"
        /\ alerts' = <<>>
        /\ UNCHANGED <<graph, pageRankScores, selectedNode, isComputing, pendingLoads,
                       inflight, buttons, parseVars, recVars>>

(* a click on a row of the table: selectNode(id) *)
ClickRow ==
    \E id \in rows :
        /\ selectedNode' = <<id>>
        /\ \E d \in showNodeDetails(graph[1], pageRankScores, id) :
             IF d.threw
             THEN /\ lastOp' = "select:threw"
                  /\ UNCHANGED buttons
             ELSE /\ lastOp' = "select"
                  /\ buttons' = d.buttons
        /\ alerts' = <<>>
        /\ UNCHANGED <<graph, pageRankScores, isComputing, sortBy, sortOrder, pendingLoads,
                       inflight, rows, parseVars, recVars>>

(* a click on a Connect button of the details panel: connectNodes(a, b) *)
ClickConnect ==
    \E b \in buttons :
        /\ Len(graph[1].edges) < MaxEdges
        /\ Len(inflight) < MaxInflight
        /\ LET c == connectNodes(graph[1], b[1], b[2])
               flying == Mutated(inflight, c.graph.adjacencyList)
               r == computePageRank(<<c.graph>>, isComputing, flying)
           IN  /\ graph' = <<c.graph>>
               /\ IF c.threw
                  THEN /\ inflight' = flying
                       /\ alerts' = <<>>
                       /\ lastOp' = "connect:threw"
                       /\ UNCHANGED isComputing
                  ELSE /\ inflight' = r.inflight
                       /\ isComputing' = r.isComputing
                       /\ alerts' = <<"connected">> \o r.alerts
                       /\ lastOp' = "connect:" \o r.tag
        /\ UNCHANGED <<pageRankScores, selectedNode, sortBy, sortOrder, pendingLoads,
                       rows, buttons, parseVars, recVars>>

Next ==
    \/ ClickCompute
    \/ EngineSettle
    \/ ClickReset
    \/ FetchResolves
    \/ FetchRejects
    \/ ClickHeader
    \/ ClickRow
    \/ ClickConnect

Spec == Init /\ [][Next]_vars

(* An engine invocation in flight settles. In Spec a Settled step is an
   EngineSettle step, and EngineSettle is enabled whenever an invocation is in
   flight. *)
Settled == \E i \in 1..Len(inflight) : inflight' = RemoveAt(inflight, i)

(* The promise computePageRank awaits is settled and its continuation is run *)
SpecLive == Spec /\ WF_inflight(Settled)

-----------------------------------------------------------------------------
(* parseCSVToGraph over every text of at most MaxParseLines lines of at most
   MaxParseFields fields *)

MaxParseFields == 3

ParseFields == {"", " ", "1", "2", "1.5", "x"}

SeqsUpTo(S, n) == UNION {[1..k -> S] : k \in 1..n}

ParseTexts == SeqsUpTo(SeqsUpTo(ParseFields, MaxParseFields), MaxParseLines)

InitParse ==
    /\ InitApp
    /\ IdleRec
    /\ csvText \in ParseTexts
    /\ parsed = Null

Parse ==
    /\ parsed = Null
    /\ parsed' = <<parseCSVToGraph(csvText)>>
    /\ UNCHANGED <<csvText, appVars, recVars>>

SpecParse == InitParse /\ [][Parse]_vars

-----------------------------------------------------------------------------
(* getRecommendations over the graphs of RecTexts, every score map with
   scores in 0..MaxRecScore and every node *)

MaxRecScore == 2

RecTexts ==
    { << <<"1", "2">>, <<"3", "4">>, <<"5", "6">> >>,
      << <<"1", "2">>, <<"2", "3">>, <<"3", "4">> >>,
      << <<"1.5", "2">>, <<"2", "3">> >> }

RecInputs ==
    UNION {
        LET g == parseCSVToGraph(text)
        IN  {[g |-> g, scores |-> sc, nodeId |-> id] :
                sc \in {Null} \cup {<<m>> : m \in [Range(g.nodes) -> 0..MaxRecScore]},
                id \in Range(g.nodes)}
        : text \in RecTexts}

InitRec ==
    /\ InitApp
    /\ IdleParse
    /\ recInput \in {<<in>> : in \in RecInputs}
    /\ recOutput = Null

Recommend ==
    /\ recOutput = Null
    /\ recOutput' = <<getRecommendations(recInput[1].g, recInput[1].scores, recInput[1].nodeId)>>
    /\ UNCHANGED <<recInput, appVars, parseVars>>

SpecRec == InitRec /\ [][Recommend]_vars

-----------------------------------------------------------------------------
(* Properties *)

Loaded == graph # Null

Adj == graph[1].adjacencyList

(* the last handler made a call of connectNodes that ran to its end *)
Connected(al) == al # <<>> /\ al[1] = "connected"

Symmetric(adj) ==
    \A a \in DOMAIN adj : \A i \in 1..Len(adj[a]) :
        adj[a][i] \in DOMAIN adj /\ Includes(adj[adj[a][i]], a)

(* C1: while a graph is loaded the adjacency list is symmetric: B is in
   adjacencyList[A] if and only if A is in adjacencyList[B]. *)
C1_Symmetric == Loaded => Symmetric(Adj)

(* the handler that just ran called the engine *)
EngineInvoked ==
    lastOp \in {"compute:started", "compute:invalidInput",
                "connect:started", "connect:invalidInput"}

(* C2: whenever the app invokes the engine the arguments satisfy the engine's
   preconditions: 50 iterations, damping 0.85, every neighbour identifier is a
   key of the adjacency list, and the keys are the ids of graph.nodes. *)
C2_EngineInputValid ==
    EngineInvoked =>
        /\ MaxIterations = 50
        /\ DampingPercent = 85
        /\ ValidEngineInput(Adj, MaxIterations, DampingPercent)
        /\ Keys(Adj) = Range(graph[1].nodes)

(* C3: from the call of the engine until the invocation settles nothing is
   added to a neighbour list of the adjacency list it was given. *)
C3_NoMutationInFlight ==
    [][Len(inflight') = Len(inflight) =>
          \A i \in 1..Len(inflight) : inflight'[i].adj = inflight[i].adj]_vars

(* C4: at most one engine invocation is in flight, and a computePageRank
   request made while isComputing (by connectNodes, the compute button being
   disabled) starts no invocation and changes nothing: the step writes what
   connectNodes wrote before the request and leaves the rest as it was. *)
C4_SingleFlight ==
    [][/\ Len(inflight') <= 1
       /\ (isComputing /\ Connected(alerts') /\ graph' # graph) =>
            /\ Len(inflight') = Len(inflight)
            /\ alerts' = <<"connected">>
            /\ \E b \in buttons : graph' = <<connectNodes(graph[1], b[1], b[2]).graph>>
            /\ UNCHANGED <<pageRankScores, selectedNode, isComputing, sortBy, sortOrder>>]_vars

C4_Witness == isComputing /\ lastOp = "connect:rejected" /\ Len(inflight) = 1

(* the candidates of the claim: the nodes neither adjacent to nor equal to
   the queried node *)
NewFriends(g, nodeId) ==
    {n \in Range(g.nodes) : n # nodeId /\ n \notin Range(Friends(g, nodeId))}

(* C5: getRecommendations(nodeId) returns the top 3 nodes by score among those
   neither adjacent to nor equal to nodeId: min(3, candidates) entries, each a
   candidate, in non-increasing score order, none scoring less than a
   candidate left out; and nothing when pageRankScores is null. *)
C5_TopThreeNewFriends ==
    recOutput # Null =>
        LET in == recInput[1]
            out == recOutput[1]
            cands == NewFriends(in.g, in.nodeId)
            returned == {out[i].node : i \in 1..Len(out)}
        IN  IF in.scores = Null THEN out = <<>>
            ELSE /\ Len(out) = Min(TopK, Cardinality(cands))
                 /\ returned \subseteq cands
                 /\ \A i \in 1..Len(out) : out[i].score = in.scores[1][out[i].node]
                 /\ \A i \in 1..Len(out) - 1 : out[i].score >= out[i + 1].score
                 /\ \A c \in cands \ returned :
                       \A i \in 1..Len(out) : in.scores[1][c] <= out[i].score

IsIntegerLiteral(field) == \E n \in 0..MaxLiteral : ToString(n) = field

(* a line that is exactly a source,target pair of integers *)
WellFormed(line) ==
    Len(line) = 2 /\ IsIntegerLiteral(line[1]) /\ IsIntegerLiteral(line[2])

RECURSIVE WellFormedEdges(_)
WellFormedEdges(lines) ==
    IF lines = <<>> THEN <<>>
    ELSE (IF WellFormed(lines[1])
          THEN <<[source |-> Number(lines[1][1]), target |-> Number(lines[1][2])]>>
          ELSE <<>>) \o WellFormedEdges(Tail(lines))

(* C6: parseCSVToGraph skips blank and malformed lines: the edges of the graph
   are those of the well-formed lines of the text, in order, and its nodes are
   their endpoints. *)
C6_SkipsMalformedLines ==
    parsed # Null =>
        /\ parsed[1].edges = WellFormedEdges(csvText)
        /\ Range(parsed[1].nodes) = EdgeNodes(WellFormedEdges(csvText))

(* C7: no node identifier appears in its own neighbour list. *)
C7_NoSelfLoops ==
    Loaded => \A a \in DOMAIN Adj : ~Includes(Adj[a], a)

NoDuplicates(list) == \A i, j \in 1..Len(list) : list[i] = list[j] => i = j

(* C8: each identifier occurs at most once in each neighbour list. *)
C8_NoDuplicateNeighbours ==
    Loaded => \A a \in DOMAIN Adj : NoDuplicates(Adj[a])

SamePair(e, f) ==
    \/ e.source = f.source /\ e.target = f.target
    \/ e.source = f.target /\ e.target = f.source

(* a pair that was already connected has been connected again by connectNodes *)
C8_Witness ==
    /\ Loaded
    /\ Connected(alerts)
    /\ LET edges == graph[1].edges
       IN  \E i \in 1..Len(edges) - 1 : SamePair(edges[i], edges[Len(edges)])

(* the handler that just ran failed in computePageRank: on this.graph being
   null, or on the engine throwing or rejecting *)
ComputeFailed(op) ==
    op \in {"compute:noGraph", "compute:invalidInput", "connect:invalidInput",
            "settle:rejected"}

(* C9: a failed computePageRank leaves pageRankScores, graph and selectedNode
   as they were before the failure (graph as connectNodes left it, when the
   request came from connectNodes) and raises an error message. *)
C9_FailureLeavesState ==
    [][ComputeFailed(lastOp') =>
          /\ alerts' # <<>> /\ alerts'[Len(alerts')] = "error"
          /\ pageRankScores' = pageRankScores
          /\ selectedNode' = selectedNode
          /\ IF Connected(alerts')
             THEN \E b \in buttons : graph' = <<connectNodes(graph[1], b[1], b[2]).graph>>
             ELSE graph' = graph]_vars

(* the engine failed with scores installed and a node selected *)
C9_Witness ==
    /\ lastOp = "settle:rejected"
    /\ pageRankScores # Null
    /\ selectedNode # Null

(* the tolerance 1e-6 on the sum of the scores, in score units *)
SumTolerance == ScoreUnit \div 1000000

(* C10: the score map installed as pageRankScores is a probability
   distribution: no score is negative and the scores sum to 1 within 1e-6. *)
C10_ProbabilityDistribution ==
    pageRankScores # Null =>
        LET sc == pageRankScores[1]
        IN  /\ \A v \in DOMAIN sc : sc[v] >= 0
            /\ Abs(SumOver(sc, DOMAIN sc) - ScoreUnit) <= SumTolerance

(* scores are installed that are not all equal *)
C10_Witness ==
    /\ pageRankScores # Null
    /\ \E u, v \in DOMAIN pageRankScores[1] : pageRankScores[1][u] > pageRankScores[1][v]

(* pageRankScores is the engine's result over the adjacency list as it is *)
ScoresCurrent == pageRankScores # Null /\ Loaded /\ pageRankScores[1] = EngineResult(Adj)

(* the graph was reset or reloaded, or the engine failed *)
Excused ==
    lastOp \in {"reset", "load:parsed", "load:fallback", "load:threw",
                "settle:rejected", "compute:invalidInput", "connect:invalidInput"}

(* C11: after a call of connectNodes that ran to its end PageRank is
   recomputed: eventually pageRankScores is the engine's result over a graph
   that has the new edge, unless a reset or reload intervenes or the engine
   fails. *)
C11_RecomputedAfterConnect == Connected(alerts) ~> (ScoresCurrent \/ Excused)

(* C12: isComputing is true exactly while an engine invocation is awaited,
   and once true it eventually returns to false (the compute button is
   disabled and enabled with it). *)
C12_FlagReleased ==
    /\ [](isComputing <=> inflight # <<>>)
    /\ isComputing ~> ~isComputing

(* a computePageRank request made before the graph was loaded has failed and
   released the flag *)
C12_Witness == lastOp = "compute:noGraph" /\ graph = Null /\ ~isComputing

(* C13: when an engine invocation completes successfully (computePageRank
   runs to its end without throwing) and a node is selected, node 0 included,
   showNodeDetails is invoked for the selected node with the new scores: the
   details panel holds what showNodeDetails writes. *)
C13_SelectedNodeRefreshed ==
    [][(lastOp' = "settle:ok" /\ selectedNode # Null) =>
          \E d \in showNodeDetails(graph[1], pageRankScores', selectedNode[1]) :
              ~d.threw /\ buttons' = d.buttons]_vars

(* the responses that are the data set *)
DatasetTexts == FetchTexts \ {NotFoundPage}

(* loadDefaultData has just finished *)
LoadFinished == lastOp \in {"load:parsed", "load:fallback", "load:threw"}

(* C14: when loadDefaultData finishes, whatever the fetch did, this.graph is
   the graph parsed from the fetched data set or the graph of the built-in
   default data, and its node set is not empty. *)
C14_LoadFallsBack ==
    LoadFinished =>
        /\ Loaded
        /\ graph[1] \in {parseCSVToGraph(text) : text \in DatasetTexts \cup {getDefaultGraphData}}
                        \cup {createDefaultGraph}
        /\ graph[1].nodes # <<>>

(* C15: sortTable(c) flips sortOrder and keeps sortBy when the key of c is the
   current sortBy, and otherwise sets sortBy to the key and sortOrder to 'asc';
   sortOrder is always 'asc' or 'desc' and sortBy one of the three keys (so
   two clicks on the active column restore sortOrder). *)
C15_SortToggle ==
    /\ [](sortOrder \in {"asc", "desc"} /\ sortBy \in SortKeys)
    /\ [][lastOp' \in {"sort", "sort:threw"} =>
            \E column \in HeaderColumns :
                IF sortBy = SortKeyOf(column)
                THEN sortBy' = sortBy /\ sortOrder' # sortOrder
                ELSE sortBy' = SortKeyOf(column) /\ sortOrder' = "asc"]_vars

(* the active column was clicked again: the table is sorted descending *)
C15_Witness == lastOp = "sort" /\ sortOrder = "desc" /\ sortBy = "pageRank"

(* C16: the result of an engine invocation that was started before a reset is
   never installed as pageRankScores over the reloaded graph. An invocation
   whose adjacency list is no longer this.graph's was started before the load
   that replaced the graph, and so before the reset that made that load. *)
C16_NoStaleInstall ==
    [][\A i \in 1..Len(inflight) :
          (inflight' = RemoveAt(inflight, i) /\ lastOp' \in {"settle:ok", "settle:threw"}) =>
              inflight[i].live]_vars

(* the unordered pairs of an edge list and of an adjacency list *)
EdgePairs(edges) == {{edges[i].source, edges[i].target} : i \in 1..Len(edges)}

AdjPairs(adj) == UNION {{{a, adj[a][i]} : i \in 1..Len(adj[a])} : a \in DOMAIN adj}

(* C17: while a graph is loaded the unordered pairs of graph.edges are the
   unordered pairs {A, B} with B in adjacencyList[A]. *)
C17_EdgesMatchAdjacency ==
    Loaded => EdgePairs(graph[1].edges) = AdjPairs(Adj)

NoDangling(adj) == \A a \in DOMAIN adj : adj[a] # <<>>

IsPrefix(s, t) == Len(s) <= Len(t) /\ SubSeq(t, 1, Len(s)) = s

(* the handler that just ran called connectNodes *)
ConnectCalled(op) ==
    op \in {"connect:threw", "connect:started", "connect:rejected", "connect:invalidInput"}

(* C18: every key of adjacencyList has a non-empty neighbour list, in the
   loaded graph, in the adjacency list of every engine invocation and in the
   whole of the built-in default graph; connectNodes shortens no neighbour
   list and leaves the key set as it is. *)
C18_NoDanglingNode ==
    /\ [](/\ Loaded => NoDangling(Adj)
          /\ \A i \in 1..Len(inflight) : NoDangling(inflight[i].adj0)
          /\ \A n \in 1..DefaultGraphNodeCount :
                \E i \in 1..Len(DefaultGraphEdges) :
                    n \in {DefaultGraphEdges[i][1], DefaultGraphEdges[i][2]})
    /\ [][ConnectCalled(lastOp') =>
            /\ DOMAIN graph'[1].adjacencyList = DOMAIN Adj
            /\ \A a \in DOMAIN Adj : IsPrefix(Adj[a], graph'[1].adjacencyList[a])]_vars

(* connectNodes has lengthened the neighbour lists of a graph in which an
   engine invocation is started *)
C18_Witness ==
    /\ lastOp = "connect:started"
    /\ \E a \in DOMAIN Adj : Len(Adj[a]) >= 2
    /\ Len(inflight) = 1

====
